---- MODULE Spec2Model ----
(***************************************************************************)
(* A model of ShuttleSquads Pro: the bracket-graph generator               *)
(* (tournament_builder.py), the chronological Elo recompute (engine.py),   *)
(* the match-finished webhook (api.py) and the Monte Carlo knockout        *)
(* simulator (monte_carlo.py).  The services are independently invocable,  *)
(* so each has its own specification over its own variables; the other     *)
(* services' variables stay idle in it.                                    *)
(***************************************************************************)
EXTENDS Integers, Sequences, FiniteSets, TLC

VARIABLES
    \* ---- TournamentGraphGenerator ----
    total_teams,            \* self.total_teams
    num_groups,             \* self.num_groups
    advancing_per_group,    \* self.advancing_per_group
    playoff_style,          \* argument of generate_knockout_graph
    nodes,                  \* the list being built (records, in emission order)
    round_1_matches,        \* references into nodes (1-based positions)
    round_2_matches,        \* references into nodes
    current_round_matches,  \* references into nodes
    next_round_matches,     \* references into nodes
    round_num,
    gi,                     \* the loop variable i of the running for loop
    gpc,                    \* position in build / generate_knockout_graph
    group_stage,            \* the matches list of generate_groups
    group_idx,              \* the loop variable of "for group_idx in range(num_groups)"
    pair_idx,               \* how many pairs of the group's combinations are done
    \* ---- engine.generate_power_rankings ----
    match,                  \* the row the for loop is at (the last one fetched)
    ratings,                \* the ratings dict, as its items in insertion order
    processed,              \* how many rows of the history the loop has been through
    ranked,                 \* the returned list
    epc,                    \* position in generate_power_rankings
    \* ---- api.process_match_result ----
    team_ratings,           \* the team_ratings table of the tournament: team_name -> row
    payload,                \* the last webhook payload delivered
    response,               \* what the handler answered to it
    upserts,                \* per match id, how many deliveries of it wrote team_ratings
    delivered,              \* how many deliveries the handler has served
    \* ---- monte_carlo.run_tournament_simulation ----
    teams,                  \* argument: the list of {team, power_rating}
    iterations,             \* argument
    bracket_teams,          \* teams[:8]
    results,                \* the tracking dict, as its items in insertion order
    completed,              \* iterations of the simulation loop completed
    forecast,               \* the returned list
    spc,                    \* position in run_tournament_simulation
    \* ---- api.get_power_rankings ----
    rating_rows,            \* ratings_res.data: the team_ratings rows, by rating descending
    team_stats,             \* team -> {scored, conceded, clutch_games, clutch_wins, upsets}
    matches_read,                   \* finished matches the metrics loop has been through
    rankings,               \* the enriched rankings of the response
    rpc,                    \* position in get_power_rankings
    \* ---- engine.calculate_mov_multiplier ----
    mov_calls               \* the calls made: arguments and returned multiplier

config == <<total_teams, num_groups, advancing_per_group, playoff_style>>
groups == <<group_stage, group_idx, pair_idx>>
gvars == <<config, groups, nodes, round_1_matches, round_2_matches,
           current_round_matches, next_round_matches, round_num, gi, gpc>>

evars == <<match, ratings, processed, ranked, epc>>

wvars == <<team_ratings, payload, response, upserts, delivered>>

svars == <<teams, iterations, bracket_teams, results, completed, forecast, spc>>

rvars == <<rating_rows, team_stats, matches_read, rankings, rpc>>

mvars == <<mov_calls>>

vars == <<gvars, evars, wvars, svars, rvars, mvars>>

\* What each service leaves alone: the variables of the other services (and,
\* for generate_knockout_graph, the group stage of build).
notGraph == <<groups, evars, wvars, svars, rvars, mvars>>
notGroups == <<nodes, round_1_matches, round_2_matches, current_round_matches,
               next_round_matches, round_num, gi, evars, wvars, svars, rvars, mvars>>
notMov == <<gvars, evars, wvars, svars, rvars>>
notElo == <<gvars, wvars, svars, rvars, mvars>>
notWebhook == <<gvars, evars, svars, rvars, mvars>>
notSim == <<gvars, evars, wvars, rvars, mvars>>
notRank == <<gvars, evars, wvars, svars, mvars>>

(***************************************************************************)
(* Bounds of the model.                                                    *)
(***************************************************************************)
MaxGroups == 4
MaxTotalTeams == 8      \* largest total_teams given to build
MaxCollisions == 1      \* repeated uuid prefixes in one group stage
MaxScore == 5           \* largest score given to calculate_mov_multiplier
MaxMovCalls == 2        \* calls of calculate_mov_multiplier compared
MaxAdvancing == 5
MaxHistory == 2         \* rows in the fetched match history
MaxDeliveries == 3      \* webhook deliveries served
MaxTeams == 9           \* longest team list given to the simulator
MaxIterations == 2      \* largest iteration count given to the simulator
MaxFinished == 2        \* finished matches read by the ranking endpoint

\* Python's None where a string is expected (never a match id or a team name).
None == "None"

(***************************************************************************)
(* Python helpers.                                                         *)
(***************************************************************************)
Digit(d) ==
    CASE d = 0 -> "0" [] d = 1 -> "1" [] d = 2 -> "2" [] d = 3 -> "3" [] d = 4 -> "4"
      [] d = 5 -> "5" [] d = 6 -> "6" [] d = 7 -> "7" [] d = 8 -> "8" [] d = 9 -> "9"

\* str(n) / f"{n}" of a non-negative int.
RECURSIVE str(_)
str(n) == IF n < 10 THEN Digit(n) ELSE str(n \div 10) \o Digit(n % 10)

\* list[k] with Python's negative indices; InRange is the absence of IndexError.
InRange(s, k) == -Len(s) <= k /\ k < Len(s)
At(s, k) == IF k >= 0 THEN s[k + 1] ELSE s[Len(s) + k + 1]

\* x is falsy ("not x"): None or the empty string.
Falsy(x) == x \in {None, ""}

Abs(v) == IF v < 0 THEN -v ELSE v

\* round(num / den) for den > 0: the nearest integer, a tie going to the even one.
PyRound(num, den) ==
    LET fl == num \div den
        rem == num % den
    IN  IF 2 * rem < den THEN fl
        ELSE IF 2 * rem > den THEN fl + 1
        ELSE IF fl % 2 = 0 THEN fl ELSE fl + 1

(***************************************************************************)
(* Floats are modelled in fixed point: the integer v stands for v / FP.    *)
(* The transcendental functions are computed by their series at that       *)
(* scale, which agrees with the float results to within one unit of the    *)
(* last place.                                                             *)
(***************************************************************************)
FP == 10000
LN10_FP == 23026        \* math.log(10)
LN2_FP == 6931          \* math.log(2)

RECURSIVE ExpTerms(_, _, _)
\* term + term*x/k + term*x^2/(k(k+1)) + ... : the Taylor series of e^x.
ExpTerms(term, x, k) ==
    IF term = 0 THEN 0 ELSE term + ExpTerms(PyRound(term * x, FP * k), x, k + 1)

\* e ** x for 0 <= x <= ln 10.
ExpFP(x) == ExpTerms(FP, x, 1)

RECURSIVE Pow10(_)
Pow10(q) == IF q = 0 THEN 1 ELSE 10 * Pow10(q - 1)

\* 10 ** (d / 400) for 0 <= d < 2000.
TenToFP(d) == Pow10(d \div 400) * ExpFP(PyRound((d % 400) * LN10_FP, 400))

RECURSIVE Halvings(_, _)
\* The largest power of two <= n, from p up.
Halvings(n, p) == IF 2 * p > n THEN p ELSE Halvings(n, 2 * p)

RECURSIVE Log2Of(_)
Log2Of(p) == IF p = 1 THEN 0 ELSE 1 + Log2Of(p \div 2)

RECURSIVE AtanhTerms(_, _, _)
\* z + z^3/3 + z^5/5 + ... : the series of atanh z.
AtanhTerms(zp, z2, k) ==
    IF zp = 0 THEN 0 ELSE PyRound(zp, k) + AtanhTerms(PyRound(zp * z2, FP), z2, k + 2)

\* math.log(n) for an integer n >= 1: n = p * m with p a power of two and
\* 1 <= m < 2, ln n = log2(p) * ln 2 + 2 * atanh((m - 1) / (m + 1)).
LogFP(n) ==
    LET p == Halvings(n, 1)
        z == PyRound((n - p) * FP, n + p)
    IN  Log2Of(p) * LN2_FP + 2 * AtanhTerms(z, PyRound(z * z, FP), 1)

\* e ** x for 0 <= x < 5 ln 10, by e^x = 10 * e^(x - ln 10).
RECURSIVE ExpBig(_)
ExpBig(x) == IF x <= LN10_FP THEN ExpFP(x) ELSE 10 * ExpBig(x - LN10_FP)

RECURSIVE SqrtFrom(_, _)
\* Newton's iteration for the integer square root of n, from the estimate r >= sqrt n.
SqrtFrom(n, r) ==
    LET nxt == (r + n \div r) \div 2
    IN  IF nxt >= r THEN r ELSE SqrtFrom(n, nxt)

\* math.sqrt(x) at scale FP, for 0 <= x * FP < 2^31.
SqrtFP(x) == IF x <= 0 THEN 0 ELSE SqrtFrom(x * FP, x * FP)

(***************************************************************************)
(* TournamentGraphGenerator                                                *)
(***************************************************************************)
total_advancing == num_groups * advancing_per_group

RECURSIVE Pow2AtLeast(_, _)
Pow2AtLeast(p, n) == IF p >= n THEN p ELSE Pow2AtLeast(2 * p, n)

\* 2**math.ceil(math.log2(n)): the smallest power of two >= n.
_get_next_power_of_2(n) == IF n = 0 THEN 1 ELSE Pow2AtLeast(1, n)

bracket_size == _get_next_power_of_2(total_advancing)
byes == bracket_size - total_advancing
round_1_teams == total_advancing - byes

SeedLabel(k) == "Seed " \o str(k)
seeds == [k \in 1..total_advancing |-> SeedLabel(k)]
bye_teams == SubSeq(seeds, 1, byes)
playing_teams == SubSeq(seeds, byes + 1, Len(seeds))

WinnerOf(id) == "Winner of " \o id
LoserOf(id) == "Loser of " \o id

R1Id(k) == "R1-M" \o str(k + 1)
R2Id(k) == "R2-M" \o str(k + 1)
RoundId(r, k) == "R" \o str(r) \o "-M" \o str(k \div 2 + 1)

Node(id, stage, round, a, b, next) ==
    [match_id |-> id, stage |-> stage, round |-> round,
     participant_a |-> a, participant_b |-> b, next_match_id |-> next]

\* A plausible slip: the feeding match is made to point at itself.
SetNextToSelf(ns, k, id) == [ns EXCEPT ![k].next_match_id = ns[k].match_id]

\* node["next_match_id"] = id on the node that reference k denotes.
SetNext(ns, k, id) == [ns EXCEPT ![k].next_match_id = id]

\* A plausible slip: only the first match of the pair is pointed forward.
LinkFirstOnly(ns, a, b, id) == SetNext(ns, a, id)

\* current_round_matches[i]["next_match_id"] = match_id, and the same for i+1.
LinkPair(ns, a, b, id) == SetNext(SetNext(ns, a, id), b, id)

\* generate_knockout_graph called on a generator; it reads neither total_teams
\* nor the group stage.
GraphStart ==
    /\ num_groups \in 1..MaxGroups
    /\ advancing_per_group \in 1..MaxAdvancing
    /\ playoff_style \in {"standard", "ipl", "swiss"}
    /\ total_teams = total_advancing
    /\ group_stage = <<>>
    /\ group_idx = 0
    /\ pair_idx = 0
    /\ nodes = <<>>
    /\ round_1_matches = <<>>
    /\ round_2_matches = <<>>
    /\ current_round_matches = <<>>
    /\ next_round_matches = <<>>
    /\ round_num = 0
    /\ gi = 0
    /\ gpc = "round1"

\* One iteration of "for i in range(round_1_teams // 2)".
Round1Match ==
    /\ gpc = "round1"
    /\ gi < round_1_teams \div 2
    /\ IF InRange(playing_teams, gi) /\ InRange(playing_teams, -(gi + 1))
       THEN /\ nodes' = Append(nodes,
                   Node(R1Id(gi), "Knockouts", "Round 1 (Wildcard)",
                        At(playing_teams, gi), At(playing_teams, -(gi + 1)), None))
            /\ round_1_matches' = Append(round_1_matches, Len(nodes) + 1)
            /\ gi' = gi + 1
            /\ gpc' = gpc
       ELSE /\ gpc' = "IndexError"
            /\ UNCHANGED <<nodes, round_1_matches, gi>>
    /\ UNCHANGED <<notGraph, config, round_2_matches, current_round_matches, next_round_matches,
                   round_num>>

Round1Done ==
    /\ gpc = "round1"
    /\ ~(gi < round_1_teams \div 2)
    /\ gpc' = "round2"
    /\ gi' = 0
    /\ UNCHANGED <<notGraph, config, nodes, round_1_matches, round_2_matches, current_round_matches,
                   next_round_matches, round_num>>

\* A plausible slip: the feeding match is taken from the front of the list.
FeedingBFromFront(k) == At(round_1_matches, k)

\* round_1_matches[-(i + 1)]: Round 2 match i takes its second participant from
\* the back of the Round 1 list.
FeedingB(k) == At(round_1_matches, -(k + 1))

\* One iteration of "for i in range(bracket_size // 4)".
Round2Match ==
    /\ gpc = "round2"
    /\ gi < bracket_size \div 4
    /\ LET has_b == gi < Len(round_1_matches)
           feeding_match_b == IF has_b THEN FeedingB(gi) ELSE 0
           team_b == IF has_b THEN WinnerOf(nodes[feeding_match_b].match_id) ELSE "TBD"
           is_bye == gi < Len(bye_teams)
           ok_a == is_bye \/ InRange(round_1_matches, gi - Len(bye_teams))
           feeding_match_a == IF is_bye \/ ~ok_a THEN 0
                              ELSE At(round_1_matches, gi - Len(bye_teams))
           team_a == IF is_bye THEN At(bye_teams, gi)
                     ELSE WinnerOf(nodes[feeding_match_a].match_id)
           match_id == R2Id(gi)
           linked_a == IF is_bye THEN nodes ELSE SetNext(nodes, feeding_match_a, R2Id(gi))
           appended == Append(linked_a,
                          Node(match_id, "Knockouts", "Round 2", team_a, team_b, None))
       IN  IF ok_a
           THEN /\ nodes' = IF has_b THEN SetNext(appended, feeding_match_b, match_id)
                            ELSE appended
                /\ round_2_matches' = Append(round_2_matches, Len(nodes) + 1)
                /\ gi' = gi + 1
                /\ gpc' = gpc
           ELSE /\ gpc' = "IndexError"
                /\ UNCHANGED <<nodes, round_2_matches, gi>>
    /\ UNCHANGED <<notGraph, config, round_1_matches, current_round_matches, next_round_matches,
                   round_num>>

\* current_round_matches = round_2_matches; round_num = 3
Round2Done ==
    /\ gpc = "round2"
    /\ ~(gi < bracket_size \div 4)
    /\ current_round_matches' = round_2_matches
    /\ round_num' = 3
    /\ gpc' = "while"
    /\ UNCHANGED <<notGraph, config, nodes, round_1_matches, round_2_matches, next_round_matches, gi>>

\* A plausible slip: every pairing reads the first remaining match.
CurIdOfFirst(k) == nodes[At(current_round_matches, 0)].match_id

\* current_round_matches[k]['match_id']
CurId(k) == nodes[At(current_round_matches, k)].match_id

\* The 'ipl' branch of the while loop: Q1, Elim-1, Q2, Final-M1, then break.
IplTrack ==
    /\ gpc = "while"
    /\ Len(current_round_matches) > 1
    /\ Len(current_round_matches) = 4 /\ playoff_style = "ipl"
    /\ LET q1 == Node("Q1", "Playoffs", "Q1 & Eliminator",
                      WinnerOf(CurId(0)), WinnerOf(CurId(1)), "Final-M1")
           elim == Node("Elim-1", "Playoffs", "Q1 & Eliminator",
                        WinnerOf(CurId(2)), WinnerOf(CurId(3)), "Q2")
           q2 == Node("Q2", "Playoffs", "Qualifier 2",
                      "Loser of Q1", "Winner of Elim-1", "Final-M1")
           final == Node("Final-M1", "Playoffs", "Championship Final",
                         "Winner of Q1", "Winner of Q2", None)
           extended == nodes \o <<q1, elim, q2, final>>
       IN  nodes' = SetNext(SetNext(SetNext(SetNext(extended,
                        At(current_round_matches, 0), "Q1"),
                        At(current_round_matches, 1), "Q1"),
                        At(current_round_matches, 2), "Elim-1"),
                        At(current_round_matches, 3), "Elim-1")
    /\ gpc' = "done"
    /\ UNCHANGED <<notGraph, config, round_1_matches, round_2_matches, current_round_matches,
                   next_round_matches, round_num, gi>>

is_final == Len(current_round_matches) = 2

\* The standard track of one while iteration, up to the start of its for loop.
StandardRound ==
    /\ gpc = "while"
    /\ Len(current_round_matches) > 1
    /\ ~(Len(current_round_matches) = 4 /\ playoff_style = "ipl")
    /\ next_round_matches' = <<>>
    /\ gi' = 0
    /\ gpc' = "for"
    /\ UNCHANGED <<notGraph, config, nodes, round_1_matches, round_2_matches, current_round_matches,
                   round_num>>

\* One iteration of "for i in range(0, len(current_round_matches), 2)".
PairMatch ==
    /\ gpc = "for"
    /\ gi < Len(current_round_matches)
    /\ LET match_id == IF is_final THEN "Final-M1" ELSE RoundId(round_num, gi)
           round_title == IF is_final THEN "Final Match" ELSE "Round " \o str(round_num)
       IN  IF InRange(current_round_matches, gi + 1)
           THEN /\ nodes' = LinkPair(
                       Append(nodes, Node(match_id, "Knockouts", round_title,
                                          WinnerOf(CurId(gi)), WinnerOf(CurId(gi + 1)), None)),
                       At(current_round_matches, gi), At(current_round_matches, gi + 1),
                       match_id)
                /\ next_round_matches' = Append(next_round_matches, Len(nodes) + 1)
                /\ gi' = gi + 2
                /\ gpc' = gpc
           ELSE /\ gpc' = "IndexError"
                /\ UNCHANGED <<nodes, next_round_matches, gi>>
    /\ UNCHANGED <<notGraph, config, round_1_matches, round_2_matches, current_round_matches, round_num>>

\* A plausible slip: the style is not looked at.
AddsBronzeInEveryStyle == is_final

\* A plausible slip: the style test the wrong way round.
AddsBronzeInIpl == is_final /\ playoff_style = "ipl"

\* if is_final and playoff_style != "ipl"
AddsBronze == is_final /\ playoff_style # "ipl"

\* The end of one while iteration: the third-place match, then the next round.
RoundDone ==
    /\ gpc = "for"
    /\ ~(gi < Len(current_round_matches))
    /\ nodes' = IF AddsBronze
                THEN Append(nodes, Node("Bronze-M1", "Knockouts", "3rd Place Match",
                                        LoserOf(CurId(0)), LoserOf(CurId(1)), None))
                ELSE nodes
    /\ current_round_matches' = next_round_matches
    /\ round_num' = round_num + 1
    /\ gpc' = "while"
    /\ UNCHANGED <<notGraph, config, round_1_matches, round_2_matches, next_round_matches, gi>>

\* "while len(current_round_matches) > 1" is false: return nodes.
ReturnNodes ==
    /\ gpc = "while"
    /\ ~(Len(current_round_matches) > 1)
    /\ gpc' = "done"
    /\ UNCHANGED <<notGraph, config, nodes, round_1_matches, round_2_matches, current_round_matches,
                   next_round_matches, round_num, gi>>

GraphNext ==
    \/ Round1Match
    \/ Round1Done
    \/ Round2Match
    \/ Round2Done
    \/ IplTrack
    \/ StandardRound
    \/ PairMatch
    \/ RoundDone
    \/ ReturnNodes

GraphIdle ==
    /\ total_teams = 1
    /\ group_stage = <<>>
    /\ group_idx = 0
    /\ pair_idx = 0
    /\ num_groups = 1
    /\ advancing_per_group = 1
    /\ playoff_style = "standard"
    /\ nodes = <<>>
    /\ round_1_matches = <<>>
    /\ round_2_matches = <<>>
    /\ current_round_matches = <<>>
    /\ next_round_matches = <<>>
    /\ round_num = 0
    /\ gi = 0
    /\ gpc = "idle"


(***************************************************************************)
(* TournamentGraphGenerator.build and generate_groups                      *)
(***************************************************************************)
\* chr(65 + group_idx)
Letters == <<"A", "B", "C", "D", "E", "F", "G", "H", "I", "J", "K", "L", "M",
             "N", "O", "P", "Q", "R", "S", "T", "U", "V", "W", "X", "Y", "Z">>
group_name(idx) == Letters[idx + 1]

teams_per_group == total_teams \div num_groups

\* f"Pool {group_name} - Slot {i+1}"
SlotLabel(idx, i) == "Pool " \o group_name(idx) \o " - Slot " \o str(i + 1)

RECURSIVE PairsFrom(_, _, _)
\* itertools.combinations(range(n), 2) from the pair (a, b) on: lexicographic.
PairsFrom(a, b, n) ==
    IF a >= n - 1 THEN <<>>
    ELSE IF b >= n THEN PairsFrom(a + 1, a + 2, n)
    ELSE <<(<<a, b>>)>> \o PairsFrom(a, b + 1, n)

\* itertools.combinations(group_teams, 2), as positions in group_teams.
combinations(n) == PairsFrom(0, 1, n)

HexDigits == <<"0", "1", "2", "3", "4", "5", "6", "7", "8", "9",
               "a", "b", "c", "d", "e", "f">>
\* The first 8 characters of a uuid: 8 hex digits.
Hex8(n) == "000000" \o HexDigits[((n \div 16) % 16) + 1] \o HexDigits[(n % 16) + 1]

Repeats(ms) == Len(ms) - Cardinality({ms[k].match_id : k \in 1..Len(ms)})

\* str(uuid.uuid4())[:8]: 32 random bits, so a draw can repeat an earlier one.
\* A draw is a value not drawn before or the value of the draw before it, the
\* latter at most MaxCollisions times in one group stage.
UuidDraws(ms) ==
    {Hex8(Len(ms) + 1)}
       \cup (IF ms # <<>> /\ Repeats(ms) < MaxCollisions
             THEN {ms[Len(ms)].match_id} ELSE {})

GroupNode(id, name, a, b) ==
    [match_id |-> id, stage |-> "Groups", group |-> name,
     participant_a |-> a, participant_b |-> b, next_match_id |-> None]

\* self.generate_groups() if self.num_groups > 1 else []
HasGroupStage == num_groups > 1

\* build called on a generator.
BuildStart ==
    /\ total_teams \in 0..MaxTotalTeams
    /\ num_groups \in 1..MaxGroups
    /\ advancing_per_group \in 1..MaxAdvancing
    /\ playoff_style \in {"standard", "ipl", "swiss"}
    /\ group_stage = <<>>
    /\ group_idx = 0
    /\ pair_idx = 0
    /\ nodes = <<>>
    /\ round_1_matches = <<>>
    /\ round_2_matches = <<>>
    /\ current_round_matches = <<>>
    /\ next_round_matches = <<>>
    /\ round_num = 0
    /\ gi = 0
    /\ gpc = "build"

\* "group_stage": generate_groups() or [], whichever build evaluates.
BuildGroupStage ==
    /\ gpc = "build"
    /\ gpc' = IF HasGroupStage THEN "groups" ELSE "round1"
    /\ UNCHANGED <<notGroups, config, groups>>

\* One iteration of "for team_a, team_b in itertools.combinations(group_teams, 2)".
GroupMatch ==
    /\ gpc = "groups"
    /\ group_idx < num_groups
    /\ pair_idx < Len(combinations(teams_per_group))
    /\ LET pair == combinations(teams_per_group)[pair_idx + 1]
       IN  \E id \in UuidDraws(group_stage) :
              group_stage' = Append(group_stage,
                  GroupNode(id, group_name(group_idx),
                            SlotLabel(group_idx, pair[1]), SlotLabel(group_idx, pair[2])))
    /\ pair_idx' = pair_idx + 1
    /\ UNCHANGED <<notGroups, config, group_idx, gpc>>

\* The combinations of one group are exhausted: the next group.
GroupDone ==
    /\ gpc = "groups"
    /\ group_idx < num_groups
    /\ ~(pair_idx < Len(combinations(teams_per_group)))
    /\ group_idx' = group_idx + 1
    /\ pair_idx' = 0
    /\ UNCHANGED <<notGroups, config, group_stage, gpc>>

\* return matches; build goes on to generate_knockout_graph(playoff_style).
ReturnGroups ==
    /\ gpc = "groups"
    /\ ~(group_idx < num_groups)
    /\ gpc' = "round1"
    /\ UNCHANGED <<notGroups, config, groups>>

BuildNext ==
    \/ BuildGroupStage
    \/ GroupMatch
    \/ GroupDone
    \/ ReturnGroups
    \/ GraphNext

(***************************************************************************)
(* Properties of the returned knockout graph.                              *)
(***************************************************************************)
Returned == gpc = "done"
NodeIdx == 1..Len(nodes)
Participants(k) == {nodes[k].participant_a, nodes[k].participant_b}
HasNode(id) == \E k \in NodeIdx : nodes[k].match_id = id

\* Node k is named in a 'Winner of'/'Loser of' participant string of a later node.
ReferencedLater(k) ==
    \E j \in NodeIdx :
        /\ j > k
        /\ Participants(j) \cap {WinnerOf(nodes[k].match_id), LoserOf(nodes[k].match_id)} # {}

Terminal(k) == nodes[k].next_match_id = None /\ ~ReferencedLater(k)
Terminals == {k \in NodeIdx : Terminal(k)}
IsBronze(k) == nodes[k].match_id = "Bronze-M1"

\* C1 as stated: for total_advancing >= 2 the returned graph has exactly one
\* terminal node; every other node has a next_match_id or is referenced later.
C1_OneTerminal ==
    (Returned /\ total_advancing >= 2) => Cardinality(Terminals) = 1

\* C1 amended: there is exactly one terminal node besides the third-place match
\* Bronze-M1, and it is the last node emitted apart from Bronze-M1 (the
\* championship match); Bronze-M1 is emitted only outside the 'ipl' style, is
\* the last node and is terminal too.
C1_OneTerminalBesidesBronze ==
    (Returned /\ total_advancing >= 2) =>
        /\ Cardinality({k \in Terminals : ~IsBronze(k)}) = 1
        /\ \A k \in NodeIdx :
               IsBronze(k) => k = Len(nodes) /\ Terminal(k) /\ playoff_style # "ipl"
        /\ \A k \in Terminals :
               ~IsBronze(k) => \A j \in NodeIdx : j > k => IsBronze(j)

\* C1 witness: a returned standard-style graph whose terminals are the final
\* and the third-place match.
C1_Witness ==
    /\ Returned /\ total_advancing >= 2
    /\ Cardinality(Terminals) = 2
    /\ \E k \in Terminals : IsBronze(k)
    /\ \E k \in Terminals : nodes[k].match_id = "Final-M1"

RECURSIVE EndsAtNull(_, _)
\* Following next_match_id from node k, having visited `seen`, names existing
\* nodes only, never revisits a node and ends at a null next_match_id.
EndsAtNull(k, seen) ==
    IF nodes[k].next_match_id = None THEN TRUE
    ELSE /\ HasNode(nodes[k].next_match_id)
         /\ \A j \in NodeIdx :
               nodes[j].match_id = nodes[k].next_match_id =>
                   j \notin seen /\ EndsAtNull(j, seen \cup {j})

\* C2: the returned graph is acyclic: every non-null next_match_id names a node
\* of the list, and every next_match_id chain ends at a null without a revisit.
C2_Acyclic ==
    Returned => \A k \in NodeIdx : EndsAtNull(k, {k})

\* C2 witness: a returned graph with a chain of at least three links
\* (Elim-1 -> Q2 -> Final-M1, fed by a Round 2 or later match).
C2_Witness ==
    /\ Returned
    /\ \E a, b, c \in NodeIdx :
          /\ nodes[a].next_match_id = nodes[b].match_id
          /\ nodes[b].next_match_id = nodes[c].match_id
          /\ nodes[c].next_match_id = "Final-M1"
          /\ HasNode("Final-M1")

LiteralCount(label) ==
    Cardinality({k \in NodeIdx : nodes[k].participant_a = label})
      + Cardinality({k \in NodeIdx : nodes[k].participant_b = label})
InRound(label, round) ==
    \E k \in NodeIdx : nodes[k].round = round /\ label \in Participants(k)

\* C3 as stated: for total_advancing >= 2 every seed label is a literal
\* participant of exactly one node: seeds 1..byes of a Round 2 node and of no
\* Round 1 node, every other seed of exactly one Round 1 node.
C3_EverySeedOnce ==
    (Returned /\ total_advancing >= 2) =>
        \A n \in 1..total_advancing :
            /\ LiteralCount(SeedLabel(n)) = 1
            /\ IF n <= byes
               THEN InRound(SeedLabel(n), "Round 2")
                    /\ ~InRound(SeedLabel(n), "Round 1 (Wildcard)")
               ELSE InRound(SeedLabel(n), "Round 1 (Wildcard)")
(***************************************************************************)
(* engine.py: the chronological Elo recompute                              *)
(***************************************************************************)
INITIAL_RATING == 1500
K_FACTOR == 32
MOV_FP == 1000          \* the scale of the margin-of-victory multiplier
NoScore == -1           \* None where a score is expected (scores are non-negative)

\* The rows the query can return: finished matches of the tournament.
TeamsA == {"Alpha", "Bravo", "TBD", None}
TeamsB == {"Bravo", "Pool TBD", None}
ScoresA == {NoScore, 21}
ScoresB == {NoScore, 17, 21}
Winners == {None, "Alpha", "Bravo", "Carol"}
MatchRows ==
    [team_a : TeamsA, team_b : TeamsB, score_a : ScoresA, score_b : ScoresB,
     winner : Winners]
NoMatch == [team_a |-> None, team_b |-> None, score_a |-> NoScore, score_b |-> NoScore,
            winner |-> None]

\* 'TBD' in name, over the names of the model.
ContainsTBD(name) == name \in {"TBD", "Pool TBD"}

\* score or 0
OrZero(score) == IF score = NoScore THEN 0 ELSE score

\* 1 / (1 + math.pow(10, (rating_b - rating_a) / 400)), at scale FP.
calculate_expected_score(rating_a, rating_b) ==
    LET d == rating_b - rating_a
    IN  IF d >= 2000 THEN 0
        ELSE IF d <= -2000 THEN FP
        ELSE IF d >= 0 THEN PyRound(FP * FP, FP + TenToFP(d))
        ELSE FP - PyRound(FP * FP, FP + TenToFP(-d))

\* math.log(diff + 1) * 0.8 if diff > 0 else 1, at scale MOV_FP.
calculate_mov_multiplier(score_a, score_b) ==
    LET diff == Abs(OrZero(score_a) - OrZero(score_b))
    IN  IF diff > 0 THEN PyRound(LogFP(diff + 1) * 8, 100) ELSE MOV_FP

\* The ratings dict as a sequence of items [team, power_rating].
Has(rs, t) == \E k \in 1..Len(rs) : rs[k].team = t
Get(rs, t) == rs[CHOOSE k \in 1..Len(rs) : rs[k].team = t].power_rating
Put(rs, t, r) ==
    IF Has(rs, t)
    THEN [k \in 1..Len(rs) |-> IF rs[k].team = t THEN [rs[k] EXCEPT !.power_rating = r]
                                                 ELSE rs[k]]
    ELSE Append(rs, [team |-> t, power_rating |-> r])

\* if team not in ratings: ratings[team] = INITIAL_RATING
Initialized(rs, t) == IF Has(rs, t) THEN rs ELSE Put(rs, t, INITIAL_RATING)

\* if not team_a or not team_b or 'TBD' in team_a or 'TBD' in team_b or not winner
Skipped(m) ==
    \/ Falsy(m.team_a) \/ Falsy(m.team_b)
    \/ ContainsTBD(m.team_a) \/ ContainsTBD(m.team_b)
    \/ Falsy(m.winner)

\* round(r + adjusted_k * (actual - expected)), adjusted_k = K_FACTOR * mov
NewRating(r, mov, actual, expected) ==
    r + PyRound(K_FACTOR * mov * (actual * FP - expected), MOV_FP * FP)

\* The body of the for loop for one row.
AfterMatch(rs, m) ==
    IF Skipped(m) THEN rs
    ELSE LET score_a == OrZero(m.score_a)
             score_b == OrZero(m.score_b)
             rs1 == Initialized(Initialized(rs, m.team_a), m.team_b)
             rA == Get(rs1, m.team_a)
             rB == Get(rs1, m.team_b)
             expected_a == calculate_expected_score(rA, rB)
             expected_b == calculate_expected_score(rB, rA)
             actual_a == IF m.winner = m.team_a THEN 1 ELSE 0
             actual_b == IF m.winner = m.team_b THEN 1 ELSE 0
             mov == calculate_mov_multiplier(score_a, score_b)
         IN  Put(Put(rs1, m.team_a, NewRating(rA, mov, actual_a, expected_a)),
                 m.team_b, NewRating(rB, mov, actual_b, expected_b))

RECURSIVE InsertDesc(_, _, _)
\* it placed after every item of the descending list whose key is >= its own.
InsertDesc(sorted, it, field) ==
    IF sorted = <<>> THEN <<it>>
    ELSE IF Head(sorted)[field] >= it[field]
         THEN <<Head(sorted)>> \o InsertDesc(Tail(sorted), it, field)
         ELSE <<it>> \o sorted

RECURSIVE SortedDesc(_, _)
\* sorted(items, key=field, reverse=True): stable, ties keep their order.
SortedDesc(rs, field) ==
    IF rs = <<>> THEN <<>>
    ELSE InsertDesc(SortedDesc(SubSeq(rs, 1, Len(rs) - 1), field), rs[Len(rs)], field)

EloStart ==
    /\ match = NoMatch
    /\ ratings = <<>>
    /\ processed = 0
    /\ ranked = <<>>
    /\ epc = "loop"

EloIdle ==
    /\ match = NoMatch
    /\ ratings = <<>>
    /\ processed = 0
    /\ ranked = <<>>
    /\ epc = "idle"

\* One iteration of "for match in matches", on the next row of the history.
ProcessMatch ==
    /\ epc = "loop"
    /\ processed < MaxHistory
    /\ \E m \in MatchRows :
          /\ match' = m
          /\ ratings' = AfterMatch(ratings, m)
    /\ processed' = processed + 1
    /\ UNCHANGED <<notElo, ranked, epc>>

\* The history is exhausted: sort and return.
ReturnRanking ==
    /\ epc = "loop"
    /\ ranked' = SortedDesc(ratings, "power_rating")
    /\ epc' = "done"
    /\ UNCHANGED <<notElo, match, ratings, processed>>

EloNext ==
    \/ ProcessMatch
    \/ ReturnRanking

\* A row the specification calls malformed: a missing team, a 'TBD' team, a
\* missing winner, or a missing score.
Malformed(m) ==
    \/ Falsy(m.team_a) \/ Falsy(m.team_b)
    \/ ContainsTBD(m.team_a) \/ ContainsTBD(m.team_b)
    \/ Falsy(m.winner)
    \/ m.score_a = NoScore \/ m.score_b = NoScore

RowProcessed == processed' = processed + 1

\* C4 as stated: a row with a missing team, a 'TBD' team, a missing winner or a
\* missing score leaves the ratings mapping exactly as it was.
C4_MalformedLeavesRatings ==
    [][(RowProcessed /\ Malformed(match')) => ratings' = ratings]_vars

(***************************************************************************)
(* api.py: the match-finished webhook.  calculate_glicko2_match is         *)
(* imported from engine.py, which does not define it; it is taken from     *)
(* section 4.2 of the specification.  rating and rd are kept to 2 decimals *)
(* (integers of hundredths), the internal scale is FP.                     *)
(***************************************************************************)
GLICKO_SCALE == 17372   \* 173.7178, in hundredths of a rating point
PI2_FP == 98696         \* pi ** 2
SENTINEL_V == 9999      \* the variance used when its denominator is not positive
COLD_RATING == 150000   \* 1500.0
COLD_RD == 35000        \* 350.0
COLD_VOLATILITY == 600  \* 0.06

ColdStart ==
    [rating |-> COLD_RATING, rd |-> COLD_RD, volatility |-> COLD_VOLATILITY,
     matches_played |-> 0]

Mu(st) == PyRound((st.rating - COLD_RATING) * FP, GLICKO_SCALE)
Phi(st) == PyRound(st.rd * FP, GLICKO_SCALE)

\* g(phi) = 1 / sqrt(1 + 3 phi^2 / pi^2)
GlickoG(phi) ==
    PyRound(FP * FP, SqrtFP(FP + PyRound(3 * PyRound(phi * phi, FP) * FP, PI2_FP)))

\* E = 1 / (1 + e^(-g(phi_opp) (mu_self - mu_opp)))
GlickoE(mu_self, mu_opp, phi_opp) ==
    LET x == PyRound(GlickoG(phi_opp) * (mu_self - mu_opp), FP)
    IN  IF x >= 5 * LN10_FP THEN FP
        ELSE IF x <= -5 * LN10_FP THEN 0
        ELSE IF x >= 0 THEN FP - PyRound(FP * FP, FP + ExpBig(x))
        ELSE PyRound(FP * FP, FP + ExpBig(-x))

\* One team's update from the pre-match snapshot of both teams.
GlickoUpdate(self, opp, outcome) ==
    LET mu == Mu(self)
        phi == Phi(self)
        g == GlickoG(Phi(opp))
        E == GlickoE(mu, Mu(opp), Phi(opp))
        denom == PyRound(PyRound(g * g, FP) * PyRound(E * (FP - E), FP), FP)
        inv_v == IF denom <= 0 THEN PyRound(FP, SENTINEL_V) ELSE denom
        phi_star2 == PyRound(phi * phi, FP)
                       + PyRound(self.volatility * self.volatility, FP)
        inv_phi2 == PyRound(FP * FP, phi_star2) + inv_v
        new_phi == PyRound(FP * FP, SqrtFP(inv_phi2))
        new_mu == mu + PyRound(PyRound(PyRound(FP * FP, inv_phi2) * g, FP)
                                 * (outcome * FP - E), FP)
    IN  [rating |-> PyRound(new_mu * GLICKO_SCALE, FP) + COLD_RATING,
         rd |-> PyRound(new_phi * GLICKO_SCALE, FP),
         volatility |-> self.volatility]

\* calculate_glicko2_match(stats_a, stats_b, winner_key) -> (new_a, new_b)
calculate_glicko2_match(stats_a, stats_b, winner_key) ==
    <<GlickoUpdate(stats_a, stats_b, IF winner_key = "team_a" THEN 1 ELSE 0),
      GlickoUpdate(stats_b, stats_a, IF winner_key = "team_a" THEN 0 ELSE 1)>>

\* The webhook's inputs.  A match keeps its two teams; the handler reads no score.
MatchIds == {"m1", "m2"}
TeamAOf(id) == IF id = "m1" THEN "Alpha" ELSE "Bravo"
TeamBOf(id) == IF id = "m1" THEN "Bravo" ELSE "Carol"
Statuses == {"pending", "finished"}
NoRecord == [status |-> None]       \* old_record is None
OldRecords == {NoRecord, [status |-> "pending"], [status |-> "finished"]}
Payloads ==
    {[record |-> [id |-> id, team_a |-> TeamAOf(id), team_b |-> TeamBOf(id),
                  winner |-> w, status |-> st],
      old_record |-> old] :
        id \in MatchIds, w \in {None, "Alpha", "Bravo", "Carol"},
        st \in Statuses, old \in OldRecords}
NoPayload ==
    [record |-> [id |-> None, team_a |-> None, team_b |-> None, winner |-> None,
                 status |-> None],
     old_record |-> NoRecord]

\* match.status != "finished" or (old_record and old_record.get("status") == "finished")
NotNewlyFinished(p) ==
    \/ p.record.status # "finished"
    \/ (p.old_record # NoRecord /\ p.old_record.status = "finished")

\* "team_a" if winner_name == team_a else "team_b"
WinnerKey(rec) == IF rec.winner = rec.team_a THEN "team_a" ELSE "team_b"

\* current_data.get(team, cold start)
StatsOf(table, team) == IF team \in DOMAIN table THEN table[team] ELSE ColdStart

\* The upsert of the two rows, matches_played + 1 and the new rating state.
Upserted(table, rec) ==
    LET stats_a == StatsOf(table, rec.team_a)
        stats_b == StatsOf(table, rec.team_b)
        new == calculate_glicko2_match(stats_a, stats_b, WinnerKey(rec))
        row_a == [rating |-> new[1].rating, rd |-> new[1].rd,
                  volatility |-> new[1].volatility,
                  matches_played |-> stats_a.matches_played + 1]
        row_b == [rating |-> new[2].rating, rd |-> new[2].rd,
                  volatility |-> new[2].volatility,
                  matches_played |-> stats_b.matches_played + 1]
    IN  [t \in DOMAIN table \cup {rec.team_a, rec.team_b} |->
            IF t = rec.team_b THEN row_b
            ELSE IF t = rec.team_a THEN row_a
            ELSE table[t]]

WebhookStart ==
    /\ team_ratings = <<>>
    /\ payload = NoPayload
    /\ response = "none"
    /\ upserts = [id \in MatchIds |-> 0]
    /\ delivered = 0

WebhookIdle ==
    /\ team_ratings = <<>>
    /\ payload = NoPayload
    /\ response = "idle"
    /\ upserts = [id \in MatchIds |-> 0]
    /\ delivered = 0

\* POST /webhook/match-finished, one delivery.
process_match_result ==
    /\ response # "idle"
    /\ delivered < MaxDeliveries
    /\ \E p \in Payloads :
          /\ payload' = p
          /\ IF NotNewlyFinished(p)
             THEN /\ response' = "ignored"
                  /\ UNCHANGED <<team_ratings, upserts>>
             ELSE /\ team_ratings' = Upserted(team_ratings, p.record)
                  /\ upserts' = [upserts EXCEPT ![p.record.id] = @ + 1]
                  /\ response' = "success"
    /\ delivered' = delivered + 1
    /\ UNCHANGED notWebhook

WebhookNext == process_match_result

Delivery == delivered' = delivered + 1

\* C5 as stated: a finished match whose winner is neither team_a nor team_b
\* (an absent winner included) changes no rating state, neither in the Elo
\* recompute nor in the webhook's single-match update.
C5_ForeignWinnerLeavesRatings ==
    [][/\ (RowProcessed /\ match'.winner \notin {match'.team_a, match'.team_b})
             => ratings' = ratings
       /\ (Delivery /\ payload'.record.status = "finished"
             /\ payload'.record.winner
                  \notin {payload'.record.team_a, payload'.record.team_b})
             => team_ratings' = team_ratings]_vars

\* C6 as stated: over any sequence of deliveries a finished match writes the
\* rating state and matches_played of its teams at most once, and a delivery
\* that is not newly finished is ignored and leaves team_ratings as it was.
C6_AtMostOncePerMatch ==
    [][/\ \A id \in MatchIds : upserts'[id] <= 1
       /\ (Delivery /\ NotNewlyFinished(payload'))
             => (response' = "ignored" /\ team_ratings' = team_ratings)]_vars

(***************************************************************************)
(* monte_carlo.py: the knockout simulator.  random.random() < p, with      *)
(* 0 < p < 1 for any two finite ratings, lets either team win: each roll   *)
(* is a free choice.                                                       *)
(***************************************************************************)
BRACKET == 8

\* The team lists given: n entries, not sorted by rating, with distinct names
\* or with the eighth entry carrying the first one's name; one list too short,
\* one of exactly eight entries, one longer.
TeamName(k) == "T" \o str(k)
Field(n, twins) ==
    [k \in 1..n |-> [team |-> IF twins /\ k = BRACKET THEN TeamName(1) ELSE TeamName(k),
                      power_rating |-> 1400 + 25 * ((3 * k) % 7)]]
TeamLists == {Field(BRACKET - 1, FALSE), Field(BRACKET, TRUE), Field(MaxTeams, FALSE)}

\* A plausible slip: the last eight entries are taken.
LastEight(ts) == SubSeq(ts, IF Len(ts) > BRACKET THEN Len(ts) - BRACKET + 1 ELSE 1, Len(ts))

\* teams[:8]
Top8(ts) == SubSeq(ts, 1, IF Len(ts) < BRACKET THEN Len(ts) ELSE BRACKET)

HasTeam(rs, t) == \E k \in 1..Len(rs) : rs[k].team = t

RECURSIVE Tracking(_)
\* {team['team']: {power_rating, semis: 0, finals: 0, championships: 0} for team in ...}:
\* a repeated name keeps its first position and takes the last value.
Tracking(ts) ==
    IF ts = <<>> THEN <<>>
    ELSE LET before == Tracking(SubSeq(ts, 1, Len(ts) - 1))
             last == ts[Len(ts)]
             item == [team |-> last.team, power_rating |-> last.power_rating,
                      semis |-> 0, finals |-> 0, championships |-> 0]
         IN  IF HasTeam(before, last.team)
             THEN [k \in 1..Len(before) |->
                      IF before[k].team = last.team THEN item ELSE before[k]]
             ELSE Append(before, item)

\* results[name][stage] += 1, on the one item of that name.
Tally(rs, name, stage) ==
    LET k == CHOOSE j \in 1..Len(rs) : rs[j].team = name
    IN  [rs EXCEPT ![k][stage] = @ + 1]

\* A plausible slip: the pairs listed in seed order, 1v8, 2v7, 3v6, 4v5.
QuarterFinalsInSeedOrder == <<<<0, 7>>, <<1, 6>>, <<2, 5>>, <<3, 4>>>>

\* The quarterfinals behind sf1..sf4, as positions of bracket_teams:
\* 1v8, 4v5, 2v7, 3v6.
QuarterFinals == <<<<0, 7>>, <<3, 4>>, <<1, 6>>, <<2, 5>>>>

\* a if the roll is below the win probability, else b.
Winner(roll, a, b) == IF roll THEN a ELSE b

\* A plausible slip: only the first finalist is logged.
LogFirstFinalist(rs, f1, f2) == Tally(rs, f1, "finals")

\* results[f1['team']]['finals'] += 1; results[f2['team']]['finals'] += 1
LogFinals(rs, f1, f2) == Tally(Tally(rs, f1, "finals"), f2, "finals")

\* The body of the simulation loop under the seven rolls.
AfterIteration(rs, rolls) ==
    LET qf == QuarterFinals
        name(k) == At(bracket_teams, k).team
        sf1 == Winner(rolls[1], qf[1][1], qf[1][2])
        sf2 == Winner(rolls[2], qf[2][1], qf[2][2])
        sf3 == Winner(rolls[3], qf[3][1], qf[3][2])
        sf4 == Winner(rolls[4], qf[4][1], qf[4][2])
        semis == Tally(Tally(Tally(Tally(rs, name(sf1), "semis"), name(sf2), "semis"),
                             name(sf3), "semis"), name(sf4), "semis")
        f1 == Winner(rolls[5], sf1, sf2)
        f2 == Winner(rolls[6], sf3, sf4)
        finals == LogFinals(semis, name(f1), name(f2))
        champ == Winner(rolls[7], f1, f2)
    IN  Tally(finals, name(champ), "championships")

\* A plausible slip: the tally is not divided by the iteration count.
PercentOfOne(tally, n) == tally * 1000

\* round((tally / iterations) * 100, 1), in tenths of a percent.
Percent(tally, n) == PyRound(tally * 1000, n)

Forecast(rs, n) ==
    [k \in 1..Len(rs) |->
        [team |-> rs[k].team, power_rating |-> rs[k].power_rating,
         make_semis |-> Percent(rs[k].semis, n),
         make_finals |-> Percent(rs[k].finals, n),
         win_championship |-> Percent(rs[k].championships, n)]]

SimStart ==
    /\ teams \in TeamLists
    /\ iterations \in 0..MaxIterations
    /\ bracket_teams = <<>>
    /\ results = <<>>
    /\ completed = 0
    /\ forecast = <<>>
    /\ spc = "start"

SimIdle ==
    /\ teams = <<>>
    /\ iterations = 0
    /\ bracket_teams = <<>>
    /\ results = <<>>
    /\ completed = 0
    /\ forecast = <<>>
    /\ spc = "idle"

\* bracket_teams = teams[:8]; raise ValueError below 8; initialise the tracking dict.
TakeTopEight ==
    /\ spc = "start"
    /\ bracket_teams' = Top8(teams)
    /\ IF Len(Top8(teams)) < BRACKET
       THEN /\ spc' = "ValueError"
            /\ UNCHANGED results
       ELSE /\ results' = Tracking(Top8(teams))
            /\ spc' = "loop"
    /\ UNCHANGED <<notSim, teams, iterations, completed, forecast>>

\* One iteration of "for _ in range(iterations)".
SimulateIteration ==
    /\ spc = "loop"
    /\ completed < iterations
    /\ \E rolls \in [1..7 -> BOOLEAN] : results' = AfterIteration(results, rolls)
    /\ completed' = completed + 1
    /\ UNCHANGED <<notSim, teams, iterations, bracket_teams, forecast, spc>>

\* The loop is over: the percentages, sorted by win_championship.
FormatForecast ==
    /\ spc = "loop"
    /\ ~(completed < iterations)
    /\ IF results # <<>> /\ iterations = 0
       THEN /\ spc' = "ZeroDivisionError"
            /\ UNCHANGED forecast
       ELSE /\ forecast' = SortedDesc(Forecast(results, iterations), "win_championship")
            /\ spc' = "done"
    /\ UNCHANGED <<notSim, teams, iterations, bracket_teams, results, completed>>

SimNext ==
    \/ TakeTopEight
    \/ SimulateIteration
    \/ FormatForecast

RECURSIVE Total(_, _)
\* The tallies of one stage summed over all teams.
Total(rs, stage) == IF rs = <<>> THEN 0 ELSE Head(rs)[stage] + Total(Tail(rs), stage)

\* C7: after N iterations the tallies summed over all teams are 4N semifinal
\* appearances, 2N final appearances and N championships, and the forecast is
\* returned after exactly `iterations` of them.
C7_TallyTotals ==
    (spc \in {"loop", "done"}) =>
        /\ Total(results, "semis") = 4 * completed
        /\ Total(results, "finals") = 2 * completed
        /\ Total(results, "championships") = completed
        /\ spc = "done" => (completed = iterations /\ iterations >= 1)

\* C7 witness: a forecast returned after two iterations.
C7_Witness ==
    /\ spc = "done"
    /\ iterations = 2
    /\ Total(results, "semis") = 8
    /\ Total(results, "championships") = 2

IterationStep == completed' = completed + 1
DistinctNames ==
    Cardinality({bracket_teams[k].team : k \in 1..Len(bracket_teams)}) = Len(bracket_teams)
TallyOf(rs, name, stage) == rs[CHOOSE k \in 1..Len(rs) : rs[k].team = name][stage]

\* What the iteration added to the tally of the team seeded `seed` (1..8); with
\* eight distinct names the tracking dict holds the teams in seed order.
Gain(seed, stage) == results'[seed][stage] - results[seed][stage]

RECURSIVE GainOver(_, _)
GainOver(seedlist, stage) ==
    IF seedlist = <<>> THEN 0 ELSE Gain(Head(seedlist), stage) + GainOver(Tail(seedlist), stage)

\* C8: in every iteration (the eight names distinct) exactly one team of each
\* pair (1,8), (4,5), (2,7), (3,6) is tallied as a semifinalist, exactly one
\* finalist comes from seeds {1,8,4,5} and one from {2,7,3,6}, each finalist
\* was a semifinalist and the champion is one of the two finalists; so seeds 1
\* and 2, in different halves, meet in the championship match or not at all.
C8_BracketShape ==
    [][(IterationStep /\ DistinctNames) =>
          /\ \A s \in 1..BRACKET :
                /\ results[s].team = bracket_teams[s].team
                /\ results'[s].team = bracket_teams[s].team
                /\ Gain(s, "semis") \in {0, 1}
                /\ Gain(s, "finals") \in {0, 1}
                /\ Gain(s, "championships") \in {0, 1}
                /\ Gain(s, "finals") <= Gain(s, "semis")
                /\ Gain(s, "championships") <= Gain(s, "finals")
          /\ \A pair \in {<<1, 8>>, <<4, 5>>, <<2, 7>>, <<3, 6>>} :
                GainOver(pair, "semis") = 1
          /\ GainOver(<<1, 8, 4, 5>>, "finals") = 1
          /\ GainOver(<<2, 7, 3, 6>>, "finals") = 1
          /\ GainOver(<<1, 2, 3, 4, 5, 6, 7, 8>>, "championships") = 1]_vars

\* C8 witness: one iteration done in which seeds 1 and 2 met in the final.
C8_Witness ==
    /\ spc = "loop" /\ completed = 1 /\ DistinctNames
    /\ TallyOf(results, bracket_teams[1].team, "finals") = 1
    /\ TallyOf(results, bracket_teams[2].team, "finals") = 1

\* C9: with fewer than 8 teams the call raises ValueError before any iteration
\* and returns nothing; with 8 or more it does not raise it and works on the
\* first 8 entries of the input, in input order.
C9_NeedsEightTeams ==
    /\ Len(teams) < BRACKET =>
          /\ spc \in {"start", "ValueError"}
          /\ completed = 0 /\ results = <<>> /\ forecast = <<>>
    /\ (Len(teams) >= BRACKET /\ spc \notin {"start", "idle"}) =>
          /\ spc # "ValueError"
          /\ Len(bracket_teams) = BRACKET
          /\ \A k \in 1..BRACKET : bracket_teams[k] = teams[k]
          /\ {results[k].team : k \in 1..Len(results)}
                = {teams[k].team : k \in 1..BRACKET}
          /\ spc = "done" =>
                {forecast[k].team : k \in 1..Len(forecast)}
                   = {teams[k].team : k \in 1..BRACKET}

\* C9 witness: the call on seven teams has raised.
C9_Witness == spc = "ValueError" /\ Len(teams) = BRACKET - 1

\* C9 second witness state, used to see the other branch: nine unsorted teams,
\* forecast returned.
C9_ForecastOfNine == spc = "done" /\ Len(teams) > BRACKET

\* C20: with 8 distinctly named bracket teams, after every completed iteration
\* each team's tallies satisfy championships <= finals <= semis <= iterations
\* completed; so in the returned forecast win_championship <= make_finals <=
\* make_semis <= 100 (percentages in tenths).
C20_TalliesOrdered ==
    (spc \in {"loop", "done"} /\ DistinctNames) =>
        /\ \A k \in 1..Len(results) :
              /\ 0 <= results[k].championships
              /\ results[k].championships <= results[k].finals
              /\ results[k].finals <= results[k].semis
              /\ results[k].semis <= completed
        /\ spc = "done" =>
              \A k \in 1..Len(forecast) :
                  /\ 0 <= forecast[k].win_championship
                  /\ forecast[k].win_championship <= forecast[k].make_finals
                  /\ forecast[k].make_finals <= forecast[k].make_semis
                  /\ forecast[k].make_semis <= 1000

\* C20 witness: a forecast of two iterations over distinct names in which the
\* leading team won both: three 100% entries - and a team that never left the
\* quarterfinals.
C20_Witness ==
    /\ spc = "done" /\ DistinctNames /\ completed = 2
    /\ forecast[1].win_championship = 1000
    /\ forecast[1].make_semis = 1000
    /\ \E k \in 1..Len(forecast) : forecast[k].make_semis = 0
    /\ \E k \in 1..Len(results) : results[k].semis = 2 /\ results[k].finals = 1

(***************************************************************************)
(* api.py: get_power_rankings, the metrics added to the ranking response.  *)
(* rating is kept in hundredths, dominance_quotient in hundredths,         *)
(* clutch_win_rate in tenths of a percent, volatility at scale FP.         *)
(***************************************************************************)
GIANT_KILLER_CAP == 1550
CLUTCH_MARGIN == 3

\* The finished matches the query can return.
MetricRows ==
    [team_a : {"Alpha", None}, team_b : {"Bravo", "Carol"},
     score_a : {NoScore, 0, 21}, score_b : {NoScore, 0, 19},
     winner : {None, "Alpha", "Bravo"}]

\* The team_ratings rows of the tournament: Dana has played no match.
RatedTeams == <<"Alpha", "Bravo", "Dana">>
RatingValues == {149000, 154949, 154950, 160000}
RowsOf(rating_of) ==
    [k \in 1..Len(RatedTeams) |->
        [team_name |-> RatedTeams[k], rating |-> rating_of[k],
         volatility |-> COLD_VOLATILITY]]

NewStats == [scored |-> 0, conceded |-> 0, clutch_games |-> 0, clutch_wins |-> 0,
             upsets |-> 0]
\* team_stats.get(team, {"scored": 1, "conceded": 1, "clutch_games": 0, "clutch_wins": 0})
DefaultStats == [scored |-> 1, conceded |-> 1, clutch_games |-> 0, clutch_wins |-> 0]

\* if t not in team_stats: team_stats[t] = {...zeros...}
WithTeam(stats, t) ==
    IF t \in DOMAIN stats THEN stats
    ELSE [x \in DOMAIN stats \cup {t} |-> IF x = t THEN NewStats ELSE stats[x]]

AddTo(stats, t, field, n) == [stats EXCEPT ![t][field] = @ + n]

\* if not t1 or not t2 or s1 is None or s2 is None: continue
MetricSkipped(m) ==
    Falsy(m.team_a) \/ Falsy(m.team_b) \/ m.score_a = NoScore \/ m.score_b = NoScore

\* The body of "for m in matches" for one finished match.
Accumulated(stats, m) ==
    IF MetricSkipped(m) THEN stats
    ELSE LET t1 == m.team_a
             t2 == m.team_b
             s1 == m.score_a
             s2 == m.score_b
             st0 == WithTeam(WithTeam(stats, t1), t2)
             st1 == AddTo(AddTo(AddTo(AddTo(st0, t1, "scored", s1), t1, "conceded", s2),
                                t2, "scored", s2), t2, "conceded", s1)
             st2 == AddTo(AddTo(st1, t1, "clutch_games", 1), t2, "clutch_games", 1)
             st3 == IF m.winner = t1 THEN AddTo(st2, t1, "clutch_wins", 1) ELSE st2
             st4 == IF m.winner = t2 THEN AddTo(st3, t2, "clutch_wins", 1) ELSE st3
         IN  IF Abs(s1 - s2) <= CLUTCH_MARGIN THEN st4 ELSE st1

StatsFor(stats, team) ==
    IF team \in DOMAIN stats
    THEN [f \in DOMAIN DefaultStats |-> stats[team][f]]
    ELSE DefaultStats

\* A plausible slip: the denominator is used as it is.
UnguardedConceded(st) == st.conceded

\* conceded = stats["conceded"] if stats["conceded"] > 0 else 1
GuardedConceded(st) == IF st.conceded > 0 THEN st.conceded ELSE 1

\* ... if stats["clutch_games"] > 0 else 0.0
ComputesClutchRate(st) == st.clutch_games > 0

\* The divisions of one row find a zero denominator.
DividesByZero(st) ==
    \/ GuardedConceded(st) = 0
    \/ (ComputesClutchRate(st) /\ st.clutch_games = 0)

\* A plausible slip: int(x) where round(x) is meant.
TruncatedRating(rating) == rating \div 100

\* round(x) of a rating given in hundredths.
RoundedRating(rating) == PyRound(rating, 100)

\* One entry of enriched_rankings.
Enriched(row, st) ==
    LET dq == PyRound(st.scored * 100, GuardedConceded(st))
        clutch_rate == IF ComputesClutchRate(st)
                       THEN PyRound(st.clutch_wins * 1000, st.clutch_games)
                       ELSE 0
    IN  [team |-> row.team_name,
         power_rating |-> RoundedRating(row.rating),
         volatility |-> PyRound(row.volatility * 1000, FP),
         dominance_quotient |-> dq,
         clutch_win_rate |-> clutch_rate,
         giant_killer |-> (dq > 100 /\ RoundedRating(row.rating) < GIANT_KILLER_CAP)]

RankStart ==
    /\ \E rating_of \in [1..Len(RatedTeams) -> RatingValues] :
          rating_rows = SortedDesc(RowsOf(rating_of), "rating")
    /\ team_stats = <<>>
    /\ matches_read = 0
    /\ rankings = <<>>
    /\ rpc = "matches"

RankIdle ==
    /\ rating_rows = <<>>
    /\ team_stats = <<>>
    /\ matches_read = 0
    /\ rankings = <<>>
    /\ rpc = "idle"

\* One iteration of "for m in matches", on the next finished match.
AccumulateMatch ==
    /\ rpc = "matches"
    /\ matches_read < MaxFinished
    /\ \E m \in MetricRows : team_stats' = Accumulated(team_stats, m)
    /\ matches_read' = matches_read + 1
    /\ UNCHANGED <<notRank, rating_rows, rankings, rpc>>

\* "for r in ratings_res.data": the enriched payload, or the exception a
\* division raises (which the endpoint turns into an error response).
EnrichRankings ==
    /\ rpc = "matches"
    /\ IF \E k \in 1..Len(rating_rows) :
             DividesByZero(StatsFor(team_stats, rating_rows[k].team_name))
       THEN /\ rpc' = "ZeroDivisionError"
            /\ UNCHANGED rankings
       ELSE /\ rankings' = [k \in 1..Len(rating_rows) |->
                              Enriched(rating_rows[k],
                                       StatsFor(team_stats, rating_rows[k].team_name))]
            /\ rpc' = "done"
    /\ UNCHANGED <<notRank, rating_rows, team_stats, matches_read>>

RankNext ==
    \/ AccumulateMatch
    \/ EnrichRankings

\* Points scored over points conceded floored at 1, to 2 decimals (hundredths).
QuotientOf(scored, conceded) ==
    PyRound(scored * 100, IF conceded < 1 THEN 1 ELSE conceded)

\* C16: every entry of the ranking response has giant_killer true exactly when
\* its dominance_quotient (points scored / points conceded floored at 1, to 2
\* decimals) is above 1.0 and its rounded rating is below 1550; a team with no
\* recorded finished match gets dominance_quotient 1.0, clutch_win_rate 0.0 and
\* giant_killer false.
C16_GiantKiller ==
    rpc = "done" =>
        /\ Len(rankings) = Len(rating_rows)
        /\ \A k \in 1..Len(rankings) :
              LET e == rankings[k]
                  row == rating_rows[k]
                  played == row.team_name \in DOMAIN team_stats
              IN  /\ e.team = row.team_name
                  /\ e.power_rating = PyRound(row.rating, 100)
                  /\ played => e.dominance_quotient =
                                  QuotientOf(team_stats[e.team].scored,
                                             team_stats[e.team].conceded)
                  /\ e.giant_killer =
                        (e.dominance_quotient > 100 /\ PyRound(row.rating, 100) < 1550)
                  /\ ~played => /\ e.dominance_quotient = 100
                                /\ e.clutch_win_rate = 0
                                /\ e.giant_killer = FALSE

\* C16 witness: a response in which Alpha, rated 1549.49, outscored its
\* opponents and is a giant killer, Bravo did so too at 1549.5 (rounded: 1550)
\* and is none, and Dana, without a match, has the defaults.
C16_Witness ==
    /\ rpc = "done"
    /\ \E a, b, c \in 1..Len(rankings) :
          /\ rankings[a].team = "Alpha" /\ rating_rows[a].rating = 154949
          /\ rankings[a].dominance_quotient > 100 /\ rankings[a].giant_killer
          /\ rankings[b].team = "Bravo" /\ rating_rows[b].rating = 154950
          /\ rankings[b].dominance_quotient > 100 /\ ~rankings[b].giant_killer
          /\ rankings[c].team = "Dana" /\ rankings[c].dominance_quotient = 100
          /\ ~rankings[c].giant_killer

\* C10 as stated: no ratio computation raises a division error: not the
\* dominance quotient, not the clutch win rate, and not the simulator's
\* tally-to-percentage conversion, whatever the iteration count.
C10_NoDivisionError ==
    /\ rpc # "ZeroDivisionError"
    /\ spc # "ZeroDivisionError"

\* The j-th match remaining to be paired (j = 1..4), as a position in nodes.
Remaining(j) == current_round_matches[j]
FourRemainInIpl ==
    gpc = "while" /\ Len(current_round_matches) = 4 /\ playoff_style = "ipl"

\* C12: with playoff_style 'ipl', when exactly four matches remain the
\* generator appends exactly Q1, Elim-1, Q2 and Final-M1 and stops: Q1 takes the
\* winners of remaining matches 1 and 2, Elim-1 those of 3 and 4, Q2 the loser
\* of Q1 and the winner of Elim-1, Final-M1 the winners of Q1 and Q2; the four
\* feeding matches point to Q1/Elim-1 and nothing else changes, so there is no
\* standard semifinal and no Bronze-M1.
C12_PagePlayoff ==
    [][FourRemainInIpl =>
          LET n == Len(nodes)
              id(j) == nodes[Remaining(j)].match_id
          IN  /\ gpc' = "done"
              /\ Len(nodes') = n + 4
              /\ nodes'[n + 1] = Node("Q1", "Playoffs", "Q1 & Eliminator",
                                      "Winner of " \o id(1), "Winner of " \o id(2),
                                      "Final-M1")
              /\ nodes'[n + 2] = Node("Elim-1", "Playoffs", "Q1 & Eliminator",
                                      "Winner of " \o id(3), "Winner of " \o id(4), "Q2")
              /\ nodes'[n + 3] = Node("Q2", "Playoffs", "Qualifier 2",
                                      "Loser of Q1", "Winner of Elim-1", "Final-M1")
              /\ nodes'[n + 4] = Node("Final-M1", "Playoffs", "Championship Final",
                                      "Winner of Q1", "Winner of Q2", None)
              /\ \A k \in 1..n :
                    nodes'[k] =
                       IF k \in {Remaining(1), Remaining(2)}
                       THEN [nodes[k] EXCEPT !.next_match_id = "Q1"]
                       ELSE IF k \in {Remaining(3), Remaining(4)}
                       THEN [nodes[k] EXCEPT !.next_match_id = "Elim-1"]
                       ELSE nodes[k]
              /\ \A k \in 1..n :
                    nodes[k].match_id \notin {"Bronze-M1", "Final-M1", "Q1", "Elim-1", "Q2"}
    ]_vars

\* C12 witness: an 'ipl' graph of a 32-slot bracket returned with its page
\* playoff: Round 3 fed Q1 and Elim-1.
C12_Witness ==
    /\ Returned /\ playoff_style = "ipl" /\ bracket_size = 32
    /\ \E a, b \in NodeIdx :
          /\ nodes[a].match_id = "R3-M2" /\ nodes[a].next_match_id = "Q1"
          /\ nodes[b].match_id = "Q1" /\ nodes[b].participant_b = "Winner of R3-M2"
    /\ nodes[Len(nodes)].match_id = "Final-M1"

\* The while loop has paired its last two remaining matches, outside 'ipl':
\* a round after Round 2 was generated and one match is left.
TwoSemifinalsPaired ==
    /\ gpc \in {"while", "done"}
    /\ playoff_style # "ipl"
    /\ round_num > 3
    /\ Len(current_round_matches) = 1

NodesWithId(id) == {k \in NodeIdx : nodes[k].match_id = id}
FeedersOf(id) == {k \in NodeIdx : nodes[k].next_match_id = id}

SeedLabels == {SeedLabel(n) : n \in 1..total_advancing}
Round1Winners ==
    {"Winner of " \o nodes[k].match_id :
        k \in {j \in NodeIdx : nodes[j].round = "Round 1 (Wildcard)"}}

\* C17 as stated: each participant of a Round 2 node is a literal seed label
\* or a 'Winner of <match_id>' reference to an existing Round 1 node; no Round 2
\* participant is an unresolved placeholder such as 'TBD'.
C17_Round2Resolved ==
    \A k \in NodeIdx :
        nodes[k].round = "Round 2" =>
            /\ Participants(k) \subseteq SeedLabels \cup Round1Winners
            /\ "TBD" \notin Participants(k)

\* Node y has the participant string 'Winner of <x's match_id>'.
TakesWinnerOf(y, x) == ("Winner of " \o nodes[x].match_id) \in Participants(y)
\* Some node's match_id makes p a reference with that prefix.
RefersToNode(prefix, p) == \E x \in NodeIdx : p = prefix \o nodes[x].match_id
IsLabel(p) == p \in SeedLabels \cup {"TBD"}

\* C18: in the returned graph the two edge encodings agree: node X has
\* next_match_id = Y exactly when node Y has the participant 'Winner of X';
\* every participant that is not a seed label or 'TBD' is a 'Winner of' or
\* 'Loser of' reference to a match_id of the graph; and no match is referenced
\* as 'Winner of' by more than one node (nor twice by one).
C18_EdgeEncodingsAgree ==
    Returned =>
        /\ \A x, y \in NodeIdx :
              (nodes[x].next_match_id = nodes[y].match_id) <=> TakesWinnerOf(y, x)
        /\ \A x \in NodeIdx :
              nodes[x].next_match_id # None => HasNode(nodes[x].next_match_id)
        /\ \A k \in NodeIdx : \A p \in Participants(k) :
              ~IsLabel(p) => RefersToNode("Winner of ", p) \/ RefersToNode("Loser of ", p)
        /\ \A x \in NodeIdx :
              /\ Cardinality({y \in NodeIdx : TakesWinnerOf(y, x)}) <= 1
              /\ \A y \in NodeIdx :
                    TakesWinnerOf(y, x) => nodes[y].participant_a # nodes[y].participant_b

\* C18 witness: a returned 16-slot 'standard' graph: R1-M1 points to R2-M4,
\* which takes its winner, and Bronze-M1 refers to the losers of Round 3.
C18_Witness ==
    /\ Returned /\ playoff_style = "standard" /\ total_advancing = 15
    /\ \E x, y, b \in NodeIdx :
          /\ nodes[x].match_id = "R1-M7" /\ nodes[x].next_match_id = "R2-M1"
          /\ nodes[y].match_id = "R2-M1" /\ nodes[y].participant_b = "Winner of R1-M7"
          /\ nodes[b].match_id = "Bronze-M1" /\ nodes[b].participant_a = "Loser of R3-M1"

GroupIdx == 1..Len(group_stage)

\* C(n, 2)
Choose2(n) == (n * (n - 1)) \div 2

\* The matches of pool g between its slots a and b.
PoolMatches(g, a, b) ==
    {k \in GroupIdx :
        /\ group_stage[k].group = group_name(g)
        /\ {group_stage[k].participant_a, group_stage[k].participant_b}
              = {SlotLabel(g, a), SlotLabel(g, b)}}

\* Every pool has exactly one match for every unordered pair of its slots and
\* nothing else; every match has stage 'Groups' and no next_match_id.
RoundRobin ==
    /\ \A g \in 0..(num_groups - 1) :
          \A a, b \in 0..(teams_per_group - 1) :
              a < b => Cardinality(PoolMatches(g, a, b)) = 1
    /\ Len(group_stage) = num_groups * Choose2(teams_per_group)
    /\ \A k \in GroupIdx :
          /\ group_stage[k].stage = "Groups"
          /\ group_stage[k].group \in {group_name(g) : g \in 0..(num_groups - 1)}
          /\ group_stage[k].next_match_id = None

\* C11 as stated: for every total_teams and num_groups >= 1 the group_stage
\* returned by build holds, for each of the num_groups pools, exactly one match
\* for every unordered pair of the pool's floor(total_teams / num_groups) slots,
\* each with stage 'Groups', its group label and a null next_match_id.
C11_RoundRobinPerPool == Returned => RoundRobin

\* The same for two pools or more, where build calls generate_groups.
RoundRobinOfSeveralPools == (Returned /\ num_groups > 1) => RoundRobin

\* The match_id values of the whole schedule graph, group stage first.
AllIds ==
    [k \in 1..(Len(group_stage) + Len(nodes)) |->
        IF k <= Len(group_stage) THEN group_stage[k].match_id
        ELSE nodes[k - Len(group_stage)].match_id]

\* C15 as stated: all match_id values of one generated tournament graph are
\* pairwise distinct, across group-stage matches and knockout/playoff nodes.
C15_MatchIdsDistinct ==
    Returned => \A i, j \in 1..Len(AllIds) : i # j => AllIds[i] # AllIds[j]

\* The same of the knockout ids alone, and of a knockout id against a group id.
KnockoutIdsDistinct ==
    Returned =>
        /\ \A i, j \in NodeIdx : i # j => nodes[i].match_id # nodes[j].match_id
        /\ \A i \in NodeIdx : \A g \in GroupIdx : nodes[i].match_id # group_stage[g].match_id

(***************************************************************************)
(* engine.py: calculate_mov_multiplier called on its own.                  *)
(***************************************************************************)
MovScores == {NoScore} \cup 0..MaxScore

MovStart == mov_calls = <<>>
MovIdle == mov_calls = <<>>

\* One call calculate_mov_multiplier(score_a, score_b).
CallMov ==
    /\ Len(mov_calls) < MaxMovCalls
    /\ \E score_a, score_b \in MovScores :
          mov_calls' = Append(mov_calls,
              [score_a |-> score_a, score_b |-> score_b,
               mov |-> calculate_mov_multiplier(score_a, score_b)])
    /\ UNCHANGED notMov

MovNext == CallMov

\* |score_a - score_b| of a call, a missing score counting as 0.
Margin(call) == Abs(OrZero(call.score_a) - OrZero(call.score_b))

\* C14 as stated: the multiplier is 1 when the score difference is 0 and is
\* strictly increasing in |score_a - score_b| over all non-negative differences:
\* of two calls the one with the larger margin returns the larger multiplier.
C14_MovStrictlyIncreasing ==
    \A i, j \in 1..Len(mov_calls) :
        /\ Margin(mov_calls[i]) = 0 => mov_calls[i].mov = MOV_FP
        /\ Margin(mov_calls[i]) < Margin(mov_calls[j])
              => mov_calls[i].mov < mov_calls[j].mov

\* The same over the positive margins only.
MovIncreasingFromOne ==
    \A i, j \in 1..Len(mov_calls) :
        /\ Margin(mov_calls[i]) = 0 => mov_calls[i].mov = MOV_FP
        /\ (0 < Margin(mov_calls[i]) /\ Margin(mov_calls[i]) < Margin(mov_calls[j]))
              => mov_calls[i].mov < mov_calls[j].mov

(***************************************************************************)
(* The specifications: one per service.                                    *)
(***************************************************************************)
GraphInit == GraphStart /\ EloIdle /\ WebhookIdle /\ SimIdle /\ RankIdle /\ MovIdle
SpecGraph == GraphInit /\ [][GraphNext]_vars

BuildInit == BuildStart /\ EloIdle /\ WebhookIdle /\ SimIdle /\ RankIdle /\ MovIdle
SpecBuild == BuildInit /\ [][BuildNext]_vars

MovInit == MovStart /\ GraphIdle /\ EloIdle /\ WebhookIdle /\ SimIdle /\ RankIdle
SpecMov == MovInit /\ [][MovNext]_vars

EloInit == EloStart /\ GraphIdle /\ WebhookIdle /\ SimIdle /\ RankIdle /\ MovIdle
SpecElo == EloInit /\ [][EloNext]_vars

WebhookInit == WebhookStart /\ GraphIdle /\ EloIdle /\ SimIdle /\ RankIdle /\ MovIdle
SpecWebhook == WebhookInit /\ [][WebhookNext]_vars

SimInit == SimStart /\ GraphIdle /\ EloIdle /\ WebhookIdle /\ RankIdle /\ MovIdle
SpecSim == SimInit /\ [][SimNext]_vars

RankInit == RankStart /\ GraphIdle /\ EloIdle /\ WebhookIdle /\ SimIdle /\ MovIdle
SpecRank == RankInit /\ [][RankNext]_vars
====
